---------------------------- MODULE Spec2Model ----------------------------
(***************************************************************************)
(* A model of src/app.py, the Streamlit video dubbing app: the timestamp   *)
(* formatter format_time, the seven pipeline stages called by main, and    *)
(* the session and temporary-file state a run of main reads and writes.    *)
(*                                                                         *)
(* Time.  A Python float of seconds is modelled as a whole number of ticks *)
(* of 0.2 ms.  No tick lies half way between two milliseconds, and on such *)
(* values the float computation of format_time agrees with exact           *)
(* arithmetic (on a decimal tie such as 59.9995 the binary float lies      *)
(* beside the tie and the result depends on the representation error).     *)
(* Text.  A string the code formats or parses is a sequence of one-        *)
(* character strings, so that widths and separators are observable.        *)
(***************************************************************************)
EXTENDS Integers, Sequences, FiniteSets, TLC

VARIABLES
    \* --- format_time called on its own ---
    fmt_pc,                     \* "call" before the call, "done" after it
    fmt_in,                     \* the argument `seconds`, in ticks
    fmt_out,                    \* the returned string
    \* --- module globals and session state ---
    FASTER_WHISPER_AVAILABLE,   \* app.py:10-15
    OPENAI_WHISPER_AVAILABLE,   \* app.py:17-22
    DEPS_AVAILABLE,             \* all of MOVIEPY/PYDUB/PYSRT/TRANSLATE/GTTS
    processing,                 \* st.session_state.processing
    \* --- one run of main ---
    pc,                         \* position of main
    runs,                       \* runs of main started so far
    file_size,                  \* uploaded_file.size in MB
    temp_dir,                   \* TRUE while the TemporaryDirectory exists
    files,                      \* the temporary files that exist
    duration,                   \* get_video_duration's result (ticks)
    audio_path,                 \* extract_audio's result
    engine,                     \* the engine transcribe_audio used
    segments,                   \* transcribe_audio's segments
    subtitle_file,              \* content of original_subtitles.srt
    translated_file,            \* content of the translated .srt
    translate_log,              \* per entry, whether translator.translate succeeded
    combined_audio,             \* the assembled track
    synth_outs,                 \* per entry, what speech synthesis did (an input)
    synth_log,                  \* per entry, what the loop of app.py:253 did with it
    executed,                   \* the stages executed, in order
    errors,                     \* the st.error messages of this run
    offered,                    \* the results offered to the user
    end_check                   \* what the check at app.py:569 read, if reached

fvars == <<fmt_pc, fmt_in, fmt_out>>
gvars == <<FASTER_WHISPER_AVAILABLE, OPENAI_WHISPER_AVAILABLE, DEPS_AVAILABLE>>
rvars == <<pc, runs, file_size, temp_dir, files, duration, audio_path, engine,
           segments, subtitle_file, translated_file, translate_log,
           combined_audio,
           synth_outs, synth_log, executed, errors, offered, end_check>>
vars == <<fvars, gvars, processing, rvars>>

---------------------------------------------------------------------------
(* Units *)

TicksPerMs  == 5
TicksPerSec == 1000 * TicksPerMs
Sec(n)      == n * TicksPerSec

\* Python's None and a value that is not None.
None    == <<>>
Some(x) == <<x>>
Val(o)  == o[1]

---------------------------------------------------------------------------
(* Characters and decimal numerals *)

Digit(d) == CASE d = 0 -> "0" [] d = 1 -> "1" [] d = 2 -> "2" [] d = 3 -> "3"
              [] d = 4 -> "4" [] d = 5 -> "5" [] d = 6 -> "6" [] d = 7 -> "7"
              [] d = 8 -> "8" [] d = 9 -> "9"

DigitVal(c) == CASE c = "0" -> 0 [] c = "1" -> 1 [] c = "2" -> 2 [] c = "3" -> 3
                 [] c = "4" -> 4 [] c = "5" -> 5 [] c = "6" -> 6 [] c = "7" -> 7
                 [] c = "8" -> 8 [] c = "9" -> 9

IsDigit(c) == c \in {"0", "1", "2", "3", "4", "5", "6", "7", "8", "9"}

\* str(n) for n >= 0
RECURSIVE Decimal(_)
Decimal(n) == IF n < 10 THEN <<Digit(n)>>
              ELSE Decimal(n \div 10) \o <<Digit(n % 10)>>

RECURSIVE Zeros(_)
Zeros(k) == IF k <= 0 THEN <<>> ELSE <<"0">> \o Zeros(k - 1)

\* f"{n:0wd}": zero-padded to AT LEAST w characters; never truncated.
Pad(n, w) == Zeros(w - Len(Decimal(n))) \o Decimal(n)

\* int(s) for a digit string
RECURSIVE ParseInt(_)
ParseInt(s) == IF s = <<>> THEN 0
               ELSE 10 * ParseInt(SubSeq(s, 1, Len(s) - 1)) + DigitVal(s[Len(s)])

\* re.split on the separators in seps: the fields of s
RECURSIVE SplitOn(_, _)
SplitOn(s, seps) ==
    IF \A i \in 1..Len(s) : s[i] \notin seps THEN <<s>>
    ELSE LET i == CHOOSE j \in 1..Len(s) :
                      s[j] \in seps /\ \A k \in 1..(j - 1) : s[k] \notin seps
         IN <<SubSeq(s, 1, i - 1)>> \o SplitOn(SubSeq(s, i + 1, Len(s)), seps)

---------------------------------------------------------------------------
(* format_time, app.py:115-124 *)

\* round(x) of Python 3 for x = n/TicksPerMs: to nearest, ties to even
PyRound(n) ==
    LET q == n \div TicksPerMs
        r == n % TicksPerMs
    IN IF 2 * r > TicksPerMs \/ (2 * r = TicksPerMs /\ q % 2 = 1)
       THEN q + 1 ELSE q

format_time(seconds) ==
    LET hours   == seconds \div Sec(3600)            \* math.floor(seconds / 3600)
        s1      == seconds % Sec(3600)               \* seconds %= 3600
        minutes == s1 \div Sec(60)                   \* math.floor(seconds / 60)
        s2      == s1 % Sec(60)                      \* seconds %= 60
        milliseconds == PyRound(s2 % TicksPerSec)    \* round(frac * 1000)
        secs    == s2 \div TicksPerSec               \* math.floor(seconds)
    IN Pad(hours, 2) \o <<":">> \o Pad(minutes, 2) \o <<":">> \o Pad(secs, 1)
         \o <<",">> \o Pad(milliseconds, 3)


---------------------------------------------------------------------------
(* pysrt: the caption file as the code reads and writes it.  A caption     *)
(* file is the sequence of its blocks; a block holds the index line, the   *)
(* two timestamps of its "-->" line and its text, as written.              *)

\* SubRipTime.from_string: split on ":", "." and ",", four integer
\* fields; the ordinal in ms is their weighted sum (a field above its
\* range carries over).
SubRipTime_from_string(s) ==
    LET f == SplitOn(s, {":", ".", ","})
    IN ParseInt(f[1]) * 3600000 + ParseInt(f[2]) * 60000
         + ParseInt(f[3]) * 1000 + ParseInt(f[4])

\* str(SubRipTime): '%02d:%02d:%02d,%03d' of the ordinal's components
SubRipTime_str(ordinal) ==
    Pad(ordinal \div 3600000, 2) \o <<":">>
      \o Pad((ordinal % 3600000) \div 60000, 2) \o <<":">>
      \o Pad((ordinal % 60000) \div 1000, 2) \o <<",">>
      \o Pad(ordinal % 1000, 3)

\* pysrt.open: one SubRipItem per block
pysrt_open(file) ==
    [i \in 1..Len(file) |->
        [index |-> ParseInt(file[i].index),
         start |-> SubRipTime_from_string(file[i].start),
         end   |-> SubRipTime_from_string(file[i].end),
         text  |-> file[i].text]]

\* SubRipFile.save: one block per item, the item's own index, no renumbering
pysrt_save(subs) ==
    [i \in 1..Len(subs) |->
        [index |-> Decimal(subs[i].index),
         start |-> SubRipTime_str(subs[i].start),
         end   |-> SubRipTime_str(subs[i].end),
         text  |-> subs[i].text]]

---------------------------------------------------------------------------
(* generate_subtitle_file, app.py:180-198 *)

generate_subtitle_file(segs) ==
    [i \in 1..Len(segs) |->
        [index |-> Decimal(i),                      \* str(index+1), index from 0
         start |-> format_time(segs[i].start),
         end   |-> format_time(segs[i].end),
         text  |-> segs[i].text]]

---------------------------------------------------------------------------
(* transcribe_audio, app.py:146-178.  `result` is what the engine does:    *)
(* it raises, or it returns a list of segments.                            *)

\* a variant that ranks the engines the other way round
transcribe_audio_secondary_first(fw, ow, result) ==
    LET run(name) ==
            IF result.raised
            THEN [engine |-> name, segments |-> None,
                  error |-> "Error in transcription"]
            ELSE [engine |-> name, segments |-> Some(result.segments),
                  error |-> ""]
    IN IF ow THEN run("openai_whisper")
       ELSE IF fw THEN run("faster_whisper")
       ELSE [engine |-> "none", segments |-> None,
             error |-> "No transcription engine available"]

transcribe_audio(fw, ow, result) ==
    LET run(name) ==
            IF result.raised
            THEN [engine |-> name, segments |-> None,
                  error |-> "Error in transcription"]
            ELSE [engine |-> name, segments |-> Some(result.segments),
                  error |-> ""]
    IN IF fw THEN run("faster_whisper")
       ELSE IF ow THEN run("openai_whisper")
       ELSE [engine |-> "none", segments |-> None,
             error |-> "No transcription engine available"]

---------------------------------------------------------------------------
(* translate_subtitles, app.py:200-243.  oks[i] says whether               *)
(* translator.translate succeeds on entry i.                               *)

Translated(text) == IF text = "hello" THEN "hola" ELSE text

\* a variant whose `except` branch does not append the original item
translate_subtitles_drop_failed(file, oks) ==
    LET subs == pysrt_open(file)
        all  == [i \in 1..Len(subs) |->
                    [index |-> IF oks[i] THEN i - 1 ELSE -1,
                     start |-> subs[i].start,
                     end   |-> subs[i].end,
                     text  |-> Translated(subs[i].text)]]
        Appended(item) == item.index # -1
    IN pysrt_save(SelectSeq(all, Appended))

translate_subtitles(file, oks) ==
    LET subs == pysrt_open(file)
        translated_subs ==
            [i \in 1..Len(subs) |->
                IF oks[i]
                THEN [index |-> i - 1,              \* index=i, i from 0
                      start |-> subs[i].start,
                      end   |-> subs[i].end,
                      text  |-> Translated(subs[i].text)]
                ELSE subs[i]]                       \* keep the original item
    IN pysrt_save(translated_subs)

---------------------------------------------------------------------------
(* generate_translated_audio, app.py:245-290.  outs[i] is what speech      *)
(* synthesis does on entry i: gTTS raises ("tts_fail"), the clip is saved   *)
(* but AudioSegment.from_mp3 raises ("load_fail"), or a clip of outs[i].len *)
(* ms is loaded ("ok").  A track is its length in ms and the clips          *)
(* overlaid on it, in the order they were overlaid.                         *)

\* AudioSegment.silent(duration=ms)
silent(ms) == [len |-> ms, placed |-> <<>>]

\* AudioSegment.overlay: the result has the length of the base track; what
\* of the clip lies beyond the end of the track is cut off
overlay(track, clip, position) ==
    LET room == IF position > track.len THEN 0 ELSE track.len - position
    IN [len    |-> track.len,
        placed |-> Append(track.placed,
                          [position |-> position, clip |-> clip.of,
                           len |-> IF clip.len < room THEN clip.len ELSE room])]

\* int(start_time * 1000) with start_time = sub.start.ordinal / 1000.0
\* (exact on the timestamps the model draws)
start_ms_of(sub) == sub.start

\* a variant of the check of app.py:272 with < for <=
fits_strictly(start_ms, clip_len, track_len) == start_ms + clip_len < track_len

\* a variant that overlays without the check of app.py:272
fits_always(start_ms, clip_len, track_len) == TRUE

\* the condition under which the clip is overlaid, app.py:272
fits(start_ms, clip_len, track_len) == start_ms + clip_len <= track_len

\* one iteration of the loop at app.py:253-281 on entry i
segment_step(acc, sub, i, out) ==
    IF sub.text = ""                                 \* if text: (app.py:259)
    THEN [acc EXCEPT !.log = Append(@, [kind |-> "no_text", len |-> 0])]
    ELSE IF out.kind = "tts_fail"                    \* gTTS / tts.save raises
    THEN [acc EXCEPT !.log = Append(@, [kind |-> "tts_fail", len |-> 0])]
    ELSE IF out.kind = "load_fail"                   \* from_mp3 raises
    THEN [acc EXCEPT !.log = Append(@, [kind |-> "load_fail", len |-> 0]),
                     !.left = @ \cup {i - 1}]        \* temp_{i}.mp3 stays
    ELSE IF fits(start_ms_of(sub), out.len, acc.audio.len)
    THEN [acc EXCEPT !.audio = overlay(@, [of |-> i, len |-> out.len],
                                       start_ms_of(sub)),
                     !.log = Append(@, [kind |-> "overlaid", len |-> out.len])]
    ELSE [acc EXCEPT !.log = Append(@, [kind |-> "not_fitting", len |-> out.len])]

\* a variant whose `except` branch leaves the loop (break for continue)
RECURSIVE segment_loop_break(_, _, _, _)
segment_loop_break(acc, subs, outs, i) ==
    IF i > Len(subs) THEN acc
    ELSE IF subs[i].text # "" /\ outs[i].kind \in {"tts_fail", "load_fail"}
    THEN segment_step(acc, subs[i], i, outs[i])
    ELSE segment_loop_break(segment_step(acc, subs[i], i, outs[i]),
                            subs, outs, i + 1)

RECURSIVE segment_loop(_, _, _, _)
segment_loop(acc, subs, outs, i) ==
    IF i > Len(subs) THEN acc
    ELSE segment_loop(segment_step(acc, subs[i], i, outs[i]), subs, outs, i + 1)

generate_translated_audio(file, video_duration, outs) ==
    segment_loop([audio |-> silent(video_duration \div TicksPerMs),
                  log   |-> <<>>,
                  left  |-> {}],
                 pysrt_open(file), outs, 1)

---------------------------------------------------------------------------
(* Bounds and the inputs drawn within them *)

MaxSegs == 2        \* segments of a caption file, when the stages that
                    \* work on caption files are checked from any transcription
MaxRunSegs == 1     \* segments a transcription returns in a run of main
MaxRuns == 2        \* runs of main in one session, at most

\* (start, end) of a transcribed segment, in ticks: 0 s - 1.25 s and
\* 1.5 s - 2.9996 s
Spans == {<<0, 6250>>, <<7500, 14998>>}
Texts == {"", "hello"}
SegmentValues == {[start |-> sp[1], end |-> sp[2], text |-> t] :
                     sp \in Spans, t \in Texts}

\* what an engine returns: segments ordered by start time
SegmentLists(most) ==
    UNION {{l \in [1..n -> SegmentValues] :
               \A i \in 1..(n - 1) : l[i].start <= l[i + 1].start} :
           n \in 0..most}

TranscribeResults ==
    {[raised |-> TRUE, segments |-> <<>>]}
      \cup {[raised |-> FALSE, segments |-> l] : l \in SegmentLists(MaxRunSegs)}

\* video.duration: the call raises (None), or 0 s, or 4 s
DurationResults == {None, Some(0), Some(Sec(4))}

\* lengths in ms of a synthesized clip
ClipLens == {2500, 3000}
SynthOutcomes ==
    {[kind |-> "tts_fail", len |-> 0], [kind |-> "load_fail", len |-> 0]}
      \cup {[kind |-> "ok", len |-> c] : c \in ClipLens}

\* uploaded_file.size in bytes; file_size is size / (1024 * 1024)
MB(n) == n * 1024 * 1024
UploadSizes == {MB(100) - 1, MB(100), MB(100) + 1}

---------------------------------------------------------------------------
(* Temporary files *)

InTempDir(name, n) == [dir |-> "temp_dir", name |-> name, n |-> n]
\* tempfile.NamedTemporaryFile(delete=False, suffix='.wav'), app.py:130:
\* a fresh file in the system's temporary directory
SystemTemp(n)      == [dir |-> "system_tmp", name |-> "tmp.wav", n |-> n]

\* a variant without the `finally` of app.py:563-564
Finally_keeps_flag(fs) ==
    /\ processing' = processing
    /\ temp_dir' = FALSE
    /\ files' = {f \in fs : f.dir # "temp_dir"}

\* `finally` at app.py:563-564, then the exit of the
\* `with tempfile.TemporaryDirectory()` block of app.py:410, which
\* deletes the directory and all it holds
Finally(fs) ==
    /\ processing' = FALSE
    /\ temp_dir' = FALSE
    /\ files' = {f \in fs : f.dir # "temp_dir"}

\* python's truth value of `duration` and of `segments`
TruthyNumber(o) == o # None /\ Val(o) # 0
TruthyList(o)   == o # None /\ Val(o) # <<>>

---------------------------------------------------------------------------
(* main, app.py:339-570 *)

FreshRun ==
    /\ pc = "idle"
    /\ file_size = 0
    /\ temp_dir = FALSE
    /\ duration = None
    /\ audio_path = None
    /\ engine = "none"
    /\ segments = None
    /\ subtitle_file = None
    /\ translated_file = None
    /\ translate_log = <<>>
    /\ combined_audio = None
    /\ synth_outs = <<>>
    /\ synth_log = <<>>
    /\ executed = <<>>
    /\ errors = <<>>
    /\ offered = {}
    /\ end_check = None

Init ==
    /\ fmt_pc = "off" /\ fmt_in = 0 /\ fmt_out = <<>>
    /\ FASTER_WHISPER_AVAILABLE \in BOOLEAN
    /\ OPENAI_WHISPER_AVAILABLE \in BOOLEAN
    /\ DEPS_AVAILABLE \in BOOLEAN
    /\ processing = FALSE                            \* app.py:111-112
    /\ runs = 1
    /\ files = {}
    /\ FreshRun

\* app.py:341-343
DepsMissing ==
    /\ pc = "idle"
    /\ ~DEPS_AVAILABLE
    /\ errors' = Append(errors, "Critical dependencies missing")
    /\ pc' = "done"
    /\ UNCHANGED <<fvars, gvars, processing, runs, file_size, temp_dir, files,
                   duration, audio_path, engine, segments, subtitle_file,
                   translated_file, translate_log, combined_audio,
                   synth_outs, synth_log,
                   executed, offered, end_check>>

\* app.py:345-347
NoEngine ==
    /\ pc = "idle"
    /\ DEPS_AVAILABLE
    /\ ~(FASTER_WHISPER_AVAILABLE \/ OPENAI_WHISPER_AVAILABLE)
    /\ errors' = Append(errors, "No transcription engine available")
    /\ pc' = "done"
    /\ UNCHANGED <<fvars, gvars, processing, runs, file_size, temp_dir, files,
                   duration, audio_path, engine, segments, subtitle_file,
                   translated_file, translate_log, combined_audio,
                   synth_outs, synth_log,
                   executed, offered, end_check>>

Ready ==
    /\ pc = "idle"
    /\ DEPS_AVAILABLE
    /\ FASTER_WHISPER_AVAILABLE \/ OPENAI_WHISPER_AVAILABLE

\* no upload, or the button is not pressed: app.py:403 is false, and the
\* check of app.py:569 is reached
NoStart ==
    /\ Ready
    /\ end_check' = Some(processing)
    /\ pc' = "done"
    /\ UNCHANGED <<fvars, gvars, processing, runs, file_size, temp_dir, files,
                   duration, audio_path, engine, segments, subtitle_file,
                   translated_file, translate_log, combined_audio,
                   synth_outs, synth_log,
                   executed, errors, offered>>

\* a variant that rejects from 100 MB on (>= for >)
TooLarge_from_100 ==
    /\ Ready
    /\ \E size \in UploadSizes :
        /\ size >= MB(100)
        /\ file_size' = size
    /\ errors' = Append(errors, "Please upload a video under 100MB")
    /\ pc' = "done"
    /\ UNCHANGED <<fvars, gvars, processing, runs, temp_dir, files,
                   duration, audio_path, engine, segments, subtitle_file,
                   translated_file, translate_log, combined_audio,
                   synth_outs, synth_log,
                   executed, offered, end_check>>

\* app.py:404-406
TooLarge ==
    /\ Ready
    /\ \E size \in UploadSizes :
        /\ size > MB(100)                            \* file_size > 100
        /\ file_size' = size
    /\ errors' = Append(errors, "Please upload a video under 100MB")
    /\ pc' = "done"
    /\ UNCHANGED <<fvars, gvars, processing, runs, temp_dir, files,
                   duration, audio_path, engine, segments, subtitle_file,
                   translated_file, translate_log, combined_audio,
                   synth_outs, synth_log,
                   executed, offered, end_check>>

\* app.py:408-415: the flag is set, the directory is made and the upload
\* is saved into it
StartRun ==
    /\ Ready
    /\ \E size \in UploadSizes :
        /\ ~(size > MB(100))
        /\ file_size' = size
    /\ processing' = TRUE
    /\ temp_dir' = TRUE
    /\ files' = files \cup {InTempDir("input_video.mp4", 0)}
    /\ pc' = "duration"
    /\ UNCHANGED <<fvars, gvars, runs, duration, audio_path, engine, segments,
                   subtitle_file, translated_file, translate_log,
                   combined_audio,
                   synth_outs, synth_log, executed, errors, offered,
                   end_check>>

\* app.py:413-415 raises: `except` at 553, `finally`, the directory is
\* removed, and the check of app.py:569 is reached
StartRunSaveFails ==
    /\ Ready
    /\ \E size \in UploadSizes :
        /\ ~(size > MB(100))
        /\ file_size' = size
    /\ Finally(files)
    /\ errors' = Append(errors, "Processing failed")
    /\ end_check' = Some(processing')
    /\ pc' = "done"
    /\ UNCHANGED <<fvars, gvars, runs, duration, audio_path, engine, segments,
                   subtitle_file, translated_file, translate_log,
                   combined_audio, synth_outs, synth_log, executed, offered>>

StageOrder ==
    <<"duration", "extract", "transcribe", "subtitle", "translate", "audio",
      "video">>

\* a variant without the `return`: main goes on to what follows the stage
StageFails_no_return(fs, msgs) ==
    /\ files' = fs
    /\ errors' = errors \o msgs
    /\ pc' = IF Len(executed') < Len(StageOrder)
             THEN StageOrder[Len(executed') + 1] ELSE "success"
    /\ UNCHANGED <<processing, temp_dir>>

\* a stage reported failure: st.error, `return` inside the try block, so
\* `finally` and the directory's removal run and main ends
StageFails(fs, msgs) ==
    /\ Finally(fs)
    /\ errors' = errors \o msgs
    /\ pc' = "done"

\* Step 1, app.py:423-431, with get_video_duration, app.py:327-336
StepDuration ==
    /\ pc = "duration"
    /\ executed' = Append(executed, "duration")
    /\ \E d \in DurationResults :
        /\ duration' = d
        /\ IF TruthyNumber(d)                        \* if duration:
           THEN /\ pc' = "extract"
                /\ UNCHANGED <<processing, temp_dir, files, errors>>
           ELSE StageFails(files,
                   (IF d = None THEN <<"Error getting video duration">> ELSE <<>>)
                     \o <<"Failed to get video duration">>)
    /\ UNCHANGED <<fvars, gvars, runs, file_size, audio_path, engine, segments,
                   subtitle_file, translated_file, translate_log,
                   combined_audio, synth_outs, synth_log, offered, end_check>>

\* Step 2, app.py:433-441, with extract_audio, app.py:126-144: opening the
\* video raises before the .wav is made ("open_fail"), or the .wav is made
\* and writing the audio raises ("write_fail"), or the audio is written
StepExtract ==
    /\ pc = "extract"
    /\ executed' = Append(executed, "extract")
    /\ \E o \in {"open_fail", "write_fail", "ok"} :
        LET made == IF o = "open_fail" THEN {} ELSE {SystemTemp(runs)}
        IN IF o = "ok"
           THEN /\ audio_path' = Some(SystemTemp(runs))
                /\ files' = files \cup made
                /\ pc' = "transcribe"
                /\ UNCHANGED <<processing, temp_dir, errors>>
           ELSE /\ audio_path' = None
                /\ StageFails(files \cup made,
                              <<"Error extracting audio", "Failed to extract audio">>)
    /\ UNCHANGED <<fvars, gvars, runs, file_size, duration, engine, segments,
                   subtitle_file, translated_file, translate_log,
                   combined_audio, synth_outs, synth_log, offered, end_check>>

\* Step 3, app.py:443-451, with transcribe_audio
StepTranscribe ==
    /\ pc = "transcribe"
    /\ executed' = Append(executed, "transcribe")
    /\ \E r \in TranscribeResults :
        LET t == transcribe_audio(FASTER_WHISPER_AVAILABLE,
                                  OPENAI_WHISPER_AVAILABLE, r)
        IN /\ engine' = t.engine
           /\ segments' = t.segments
           /\ IF TruthyList(t.segments)              \* if segments:
              THEN /\ pc' = "subtitle"
                   /\ UNCHANGED <<processing, temp_dir, files, errors>>
              ELSE StageFails(files,
                      (IF t.error = "" THEN <<>> ELSE <<t.error>>)
                        \o <<"Failed to transcribe audio">>)
    /\ UNCHANGED <<fvars, gvars, runs, file_size, duration, audio_path,
                   subtitle_file, translated_file, translate_log,
                   combined_audio, synth_outs, synth_log, offered, end_check>>

\* Step 4, app.py:453-461, with generate_subtitle_file; writing the file
\* may raise
StepSubtitles ==
    /\ pc = "subtitle"
    /\ executed' = Append(executed, "subtitle")
    /\ \E ok \in BOOLEAN :
        IF ok
        THEN /\ subtitle_file' = Some(generate_subtitle_file(Val(segments)))
             /\ files' = files \cup {InTempDir("original_subtitles.srt", 0)}
             /\ pc' = "translate"
             /\ UNCHANGED <<processing, temp_dir, errors>>
        ELSE /\ subtitle_file' = None
             /\ StageFails(files, <<"Error generating subtitles",
                                    "Failed to generate subtitles">>)
    /\ UNCHANGED <<fvars, gvars, runs, file_size, duration, audio_path, engine,
                   segments, translated_file, translate_log, combined_audio,
                   synth_outs, synth_log, offered, end_check>>

\* Step 5, app.py:463-473, with translate_subtitles; opening or saving a
\* caption file may raise (the outer `except` of app.py:241)
StepTranslate ==
    /\ pc = "translate"
    /\ executed' = Append(executed, "translate")
    /\ \E ok \in BOOLEAN :
        IF ok
        THEN \E oks \in [1..Len(Val(subtitle_file)) -> BOOLEAN] :
             /\ translated_file' = Some(translate_subtitles(Val(subtitle_file), oks))
             /\ translate_log' = oks
             /\ files' = files \cup {InTempDir("original_subtitles_translated.srt", 0)}
             /\ pc' = "audio"
             /\ UNCHANGED <<processing, temp_dir, errors>>
        ELSE /\ translated_file' = None
             /\ translate_log' = <<>>
             /\ StageFails(files, <<"Error in translation",
                                    "Failed to translate subtitles">>)
    /\ UNCHANGED <<fvars, gvars, runs, file_size, duration, audio_path, engine,
                   segments, subtitle_file, combined_audio,
                   synth_outs, synth_log, offered,
                   end_check>>

\* the choices of synthesis outcomes, one per entry; an entry without text
\* is never synthesized, so that its outcome is fixed
SynthChoices(file) ==
    {outs \in [1..Len(file) -> SynthOutcomes] :
        \A i \in 1..Len(file) :
            file[i].text = "" => outs[i] = [kind |-> "tts_fail", len |-> 0]}

\* Step 6, app.py:475-485, with generate_translated_audio; the export of
\* the track may raise (the outer `except` of app.py:288)
StepAudio ==
    /\ pc = "audio"
    /\ executed' = Append(executed, "audio")
    /\ \E ok \in BOOLEAN, outs \in SynthChoices(Val(translated_file)) :
        LET r == generate_translated_audio(Val(translated_file), Val(duration), outs)
            left == {InTempDir("temp.mp3", i) : i \in r.left}
        IN /\ synth_outs' = outs
           /\ synth_log' = r.log
           /\ IF ok
              THEN /\ combined_audio' = Some(r.audio)
                   /\ files' = files \cup left
                                 \cup {InTempDir("translated_audio.wav", 0)}
                   /\ pc' = "video"
                   /\ UNCHANGED <<processing, temp_dir, errors>>
              ELSE /\ combined_audio' = None
                   /\ StageFails(files \cup left,
                                 <<"Error generating translated audio",
                                   "Failed to generate translated audio">>)
    /\ UNCHANGED <<fvars, gvars, runs, file_size, duration, audio_path, engine,
                   segments, subtitle_file, translated_file, translate_log,
                   offered, end_check>>

\* Step 7, app.py:487-497, with create_dubbed_video, app.py:292-325
StepVideo ==
    /\ pc = "video"
    /\ executed' = Append(executed, "video")
    /\ \E ok \in BOOLEAN :
        IF ok
        THEN /\ files' = files \cup {InTempDir("dubbed_video.mp4", 0)}
             /\ pc' = "success"
             /\ UNCHANGED <<processing, temp_dir, errors>>
        ELSE StageFails(files, <<"Error creating dubbed video",
                                 "Failed to create dubbed video">>)
    /\ UNCHANGED <<fvars, gvars, runs, file_size, duration, audio_path, engine,
                   segments, subtitle_file, translated_file, translate_log,
                   combined_audio, synth_outs, synth_log, offered, end_check>>

\* the success section, app.py:499-551: the video is shown, then the three
\* downloads are offered in order; a call of it may raise after the first
\* k results (`except` of app.py:553).  Then `finally`, the removal of the
\* directory and the check of app.py:569.
ResultsInOrder == <<"video", "subtitles", "audio">>

Success ==
    /\ pc = "success"
    /\ \E k \in 0..Len(ResultsInOrder) :
        /\ offered' = {ResultsInOrder[i] : i \in 1..k}
        /\ errors' = IF k < Len(ResultsInOrder)
                     THEN Append(errors, "Processing failed") ELSE errors
    /\ Finally(files)
    /\ end_check' = Some(processing')
    /\ pc' = "done"
    /\ UNCHANGED <<fvars, gvars, runs, file_size, duration, audio_path, engine,
                   segments, subtitle_file, translated_file, translate_log,
                   combined_audio, synth_outs, synth_log, executed>>

\* the script is run again in the same session: the locals of main are
\* new, st.session_state and the file system are kept
Rerun ==
    /\ pc = "done"
    /\ runs < MaxRuns
    /\ runs' = runs + 1
    /\ pc' = "idle"
    /\ file_size' = 0
    /\ temp_dir' = FALSE
    /\ duration' = None
    /\ audio_path' = None
    /\ engine' = "none"
    /\ segments' = None
    /\ subtitle_file' = None
    /\ translated_file' = None
    /\ translate_log' = <<>>
    /\ combined_audio' = None
    /\ synth_outs' = <<>>
    /\ synth_log' = <<>>
    /\ executed' = <<>>
    /\ errors' = <<>>
    /\ offered' = {}
    /\ end_check' = None
    /\ UNCHANGED <<fvars, gvars, processing, files>>

Next ==
    \/ DepsMissing
    \/ NoEngine
    \/ NoStart
    \/ TooLarge
    \/ StartRun
    \/ StartRunSaveFails
    \/ StepDuration
    \/ StepExtract
    \/ StepTranscribe
    \/ StepSubtitles
    \/ StepTranslate
    \/ StepAudio
    \/ StepVideo
    \/ Success
    \/ Rerun

Spec == Init /\ [][Next]_vars

---------------------------------------------------------------------------
(* The stages that work on caption files (steps 4 to 6), run from the      *)
(* state main is in after step 3 for any list of up to MaxSegs segments it *)
(* lets through.                                                           *)

\* video.duration in ticks: 4 s, and 4.0006 s, which is not a whole number
\* of milliseconds
StageDurations == {Sec(4), Sec(4) + 3}

InitStages ==
    /\ fmt_pc = "off" /\ fmt_in = 0 /\ fmt_out = <<>>
    /\ FASTER_WHISPER_AVAILABLE = TRUE
    /\ OPENAI_WHISPER_AVAILABLE = TRUE
    /\ DEPS_AVAILABLE = TRUE
    /\ processing = TRUE
    /\ runs = 1
    /\ pc = "subtitle"
    /\ file_size = MB(100)
    /\ temp_dir = TRUE
    /\ files = {InTempDir("input_video.mp4", 0), SystemTemp(1)}
    /\ duration \in {Some(d) : d \in StageDurations}
    /\ audio_path = Some(SystemTemp(1))
    /\ engine = "faster_whisper"
    /\ \E l \in SegmentLists(MaxSegs) :
        /\ TruthyList(Some(l))
        /\ segments = Some(l)
    /\ subtitle_file = None
    /\ translated_file = None
    /\ translate_log = <<>>
    /\ combined_audio = None
    /\ synth_outs = <<>>
    /\ synth_log = <<>>
    /\ executed = <<"duration", "extract", "transcribe">>
    /\ errors = <<>>
    /\ offered = {}
    /\ end_check = None

NextStages ==
    \/ StepSubtitles
    \/ StepTranslate
    \/ StepAudio

SpecStages == InitStages /\ [][NextStages]_vars

---------------------------------------------------------------------------
(* format_time on its own, on inputs below and at 100 hours *)

FormatHours   == {0, 1, 99, 100}
FormatMinutes == {0, 2, 59}
FormatSeconds == {0, 5, 9, 59}
\* ticks of the fractional part: .0, .0004, .5, .9994, .9996, .9998
FormatFractions == {0, 2, 2500, 4997, 4998, 4999}

FormatInputs ==
    {Sec(h * 3600 + m * 60 + s) + f :
        h \in FormatHours, m \in FormatMinutes, s \in FormatSeconds,
        f \in FormatFractions}

InitFormat ==
    /\ fmt_pc = "call"
    /\ fmt_in \in FormatInputs
    /\ fmt_out = <<>>
    /\ FASTER_WHISPER_AVAILABLE = TRUE
    /\ OPENAI_WHISPER_AVAILABLE = TRUE
    /\ DEPS_AVAILABLE = TRUE
    /\ processing = FALSE
    /\ runs = 1
    /\ files = {}
    /\ FreshRun

FormatTimeCall ==
    /\ fmt_pc = "call"
    /\ fmt_out' = format_time(fmt_in)
    /\ fmt_pc' = "done"
    /\ UNCHANGED <<fmt_in, gvars, processing, rvars>>

SpecFormat == InitFormat /\ [][FormatTimeCall]_vars

---------------------------------------------------------------------------
(* Properties *)

Range(q) == {q[i] : i \in 1..Len(q)}

\* "HH:MM:SS,mmm": twelve characters, digits but for ":" ":" and ","
FixedWidth(s) ==
    /\ Len(s) = 12
    /\ s[3] = ":" /\ s[6] = ":" /\ s[9] = ","
    /\ \A i \in (1..12) \ {3, 6, 9} : IsDigit(s[i])

\* C1: format_time returns a fixed-width "HH:MM:SS,mmm" string for every
\* non-negative input below 100 hours; format_time(3725.5) is
\* "01:02:05,500" and format_time(0) is "00:00:00,000".
C1_FormatTimeFixedWidth ==
    (fmt_pc = "done" /\ fmt_in < Sec(100 * 3600)) =>
        /\ FixedWidth(fmt_out)
        /\ fmt_in = Sec(3725) + 2500 =>
              fmt_out = <<"0", "1", ":", "0", "2", ":", "0", "5", ",", "5", "0", "0">>
        /\ fmt_in = 0 =>
              fmt_out = <<"0", "0", ":", "0", "0", ":", "0", "0", ",", "0", "0", "0">>

\* the field after the "," of a formatted time, as a number
MillisecondsField(s) == ParseInt(SplitOn(s, {","})[2])

\* C2: for every input of format_time the milliseconds field of the result
\* is in 0..999: rounding the fractional part never yields 1000.
C2_MillisecondsBelow1000 ==
    fmt_pc = "done" => MillisecondsField(fmt_out) \in 0..999

Last(q) == q[Len(q)]

\* C3: when transcription succeeds but yields zero segments, the run does
\* not stop at the transcription stage: it goes on to the later stages
\* (empty caption file, silent track, remuxed video).
C3_ZeroSegmentsGoOn ==
    (segments = Some(<<>>) /\ executed # <<>> /\ Last(executed) = "transcribe") =>
        /\ pc = "subtitle"
        /\ "Failed to transcribe audio" \notin Range(errors)

\* the entries of the translated caption file, as generate_translated_audio
\* reads them
TranslatedSubs == pysrt_open(Val(translated_file))

\* the entries synthesis succeeded on, with the length of their clip
Synthesized ==
    {i \in 1..Len(synth_outs) :
        TranslatedSubs[i].text # "" /\ synth_outs[i].kind = "ok"}

C5_TranslationKeepsEveryEntry ==
    translated_file # None =>
        LET in  == pysrt_open(Val(subtitle_file))
            out == pysrt_open(Val(translated_file))
        IN /\ Len(out) = Len(in)
           /\ \A i \in 1..Len(in) :
                 /\ out[i].start = in[i].start
                 /\ out[i].end = in[i].end
                 /\ out[i].text = IF translate_log[i]
                                  THEN Translated(in[i].text)
                                  ELSE in[i].text

C5_Witness ==
    /\ translated_file # None
    /\ \E i, j \in 1..Len(translate_log) :
          /\ i < j
          /\ ~translate_log[i] /\ translate_log[j]
          /\ Val(subtitle_file)[i].text = "hello"
          /\ Val(translated_file)[i].text = "hello"
          /\ Val(translated_file)[j].text = "hola"

\* the index lines of a caption file count 1, 2, ..., n
IndexedFromOne(file) == \A i \in 1..Len(file) : ParseInt(file[i].index) = i

\* C6: every caption file the pipeline writes has entries indexed
\* 1, 2, ..., n with no gap or repeat: the original file and the
\* translated file, under any mix of translation successes and failures.
C6_ContiguousIndices ==
    /\ subtitle_file # None => IndexedFromOne(Val(subtitle_file))
    /\ translated_file # None => IndexedFromOne(Val(translated_file))

\* what main shows when stage k reported failure
FailureReport ==
    <<"Failed to get video duration", "Failed to extract audio",
      "Failed to transcribe audio", "Failed to generate subtitles",
      "Failed to translate subtitles", "Failed to generate translated audio",
      "Failed to create dubbed video">>

\* stage k was executed and returned None
ReturnedNone(k) ==
    /\ Len(executed) >= k
    /\ CASE k = 1 -> duration = None
         [] k = 2 -> audio_path = None
         [] k = 3 -> segments = None
         [] k = 4 -> subtitle_file = None
         [] k = 5 -> translated_file = None
         [] k = 6 -> combined_audio = None
         [] OTHER -> FALSE

\* C7: the seven stages of a run execute in the fixed order duration,
\* extraction, transcription, subtitles, translation, audio, video; when a
\* stage reports failure no later stage is executed and no result is
\* offered; results are offered only after all seven stages succeeded.
C7_StagesInOrderAbortOnFailure ==
    /\ Len(executed) <= Len(StageOrder)
    /\ executed = SubSeq(StageOrder, 1, Len(executed))
    /\ pc \in Range(StageOrder) => pc = StageOrder[Len(executed) + 1]
    /\ \A k \in 1..Len(StageOrder) :
          (FailureReport[k] \in Range(errors) \/ ReturnedNone(k)) =>
              /\ Len(executed) = k
              /\ pc = "done"
              /\ offered = {}
    /\ offered # {} =>
          /\ executed = StageOrder
          /\ \A k \in 1..Len(StageOrder) : FailureReport[k] \notin Range(errors)

C7_Witness ==
    /\ pc = "done"
    /\ runs = 2
    /\ Len(executed) = 5
    /\ translated_file = None
    /\ FailureReport[5] \in Range(errors)

\* the temporary files the current request created that still exist
RequestFiles ==
    {f \in files : f.dir = "temp_dir" \/ (f.dir = "system_tmp" /\ f.n = runs)}

\* C8: every temporary file a request creates (the saved upload, the .wav
\* of extract_audio, the temp_<i>.mp3 clips, the caption files, the
\* assembled audio, the output video) no longer exists when the request
\* ends, on every exit path.
C8_NoTemporaryFileLeft ==
    pc = "done" => RequestFiles = {}

\* the entries a clip is overlaid for: synthesis succeeded and the clip fits
Overlaid ==
    {i \in Synthesized :
        start_ms_of(TranslatedSubs[i]) + synth_outs[i].len
            <= Val(duration) \div TicksPerMs}

\* C9: a synthesis failure on one segment skips only that segment: every
\* other segment with text is still synthesized and handled, in order; the
\* clips placed for the other segments are on the track as they would be
\* without the failure; and the function returns a track, not a failure.
C9_SynthesisFailureSkipsOneSegment ==
    (executed # <<>> /\ Last(executed) = "audio") =>
        LET subs == TranslatedSubs
        IN /\ Len(synth_log) = Len(subs)
           /\ \A i \in 1..Len(subs) :
                 /\ subs[i].text = "" <=> synth_log[i].kind = "no_text"
                 /\ i \in Synthesized =>
                       /\ synth_log[i].kind \in {"overlaid", "not_fitting"}
                       /\ synth_log[i].len = synth_outs[i].len
                 /\ (subs[i].text # "" /\ i \notin Synthesized) =>
                       synth_log[i].kind = synth_outs[i].kind
           /\ "Error generating translated audio" \notin Range(errors) =>
                 /\ pc = "video"
                 /\ combined_audio # None
                 /\ LET placed == Val(combined_audio).placed
                    IN /\ Len(placed) = Cardinality(Overlaid)
                       /\ \A i \in Overlaid :
                             \E k \in 1..Len(placed) :
                                 /\ placed[k].clip = i
                                 /\ placed[k].position = start_ms_of(subs[i])
                                 /\ placed[k].len = synth_outs[i].len
                                 /\ k = Cardinality({j \in Overlaid : j <= i})

C9_Witness ==
    /\ pc = "video"
    /\ Len(synth_log) = 2
    /\ synth_log[1].kind = "overlaid"
    /\ synth_log[2].kind \in {"tts_fail", "load_fail"}
    /\ Len(Val(combined_audio).placed) = 1

\* C10: transcribe_audio uses the primary engine (faster-whisper) whenever
\* it is available, the secondary (OpenAI Whisper) only when the primary is
\* unavailable and the secondary available; when neither is available no
\* pipeline stage runs at all; a failure raised by the chosen engine is
\* reported as a transcription failure.
C10_EnginesInRankedOrder ==
    /\ "transcribe" \in Range(executed) =>
          engine = IF FASTER_WHISPER_AVAILABLE
                   THEN "faster_whisper" ELSE "openai_whisper"
    /\ engine = "openai_whisper" =>
          ~FASTER_WHISPER_AVAILABLE /\ OPENAI_WHISPER_AVAILABLE
    /\ ~(FASTER_WHISPER_AVAILABLE \/ OPENAI_WHISPER_AVAILABLE) =>
          /\ executed = <<>>
          /\ engine = "none"
          /\ ~processing /\ ~temp_dir /\ files = {}
          /\ pc \in {"idle", "done"}
    /\ ("transcribe" \in Range(executed) /\ segments = None) =>
          /\ "Error in transcription" \in Range(errors)
          /\ "Failed to transcribe audio" \in Range(errors)
          /\ pc = "done"
          /\ Last(executed) = "transcribe"

C10_Witness ==
    /\ ~FASTER_WHISPER_AVAILABLE
    /\ engine = "openai_whisper"
    /\ segments = None
    /\ Last(executed) = "transcribe"
    /\ "Error in transcription" \in Range(errors)

\* C11: an upload larger than 100 MB is rejected before any work: no
\* pipeline stage runs, no temporary directory or file is created and the
\* session's processing flag is left unchanged; an upload of exactly
\* 100 MB is accepted.
C11_OversizeRejectedBeforeWork ==
    /\ [](file_size > MB(100) =>
            /\ pc = "done"
            /\ executed = <<>>
            /\ ~temp_dir
            /\ RequestFiles = {}
            /\ "Please upload a video under 100MB" \in Range(errors))
    /\ [](file_size = MB(100) =>
            /\ "Please upload a video under 100MB" \notin Range(errors)
            /\ \/ pc = "duration" /\ processing /\ temp_dir
               \/ executed # <<>>
               \/ "Processing failed" \in Range(errors))
    /\ [][(pc = "idle" /\ file_size' > MB(100)) =>
            /\ processing' = processing
            /\ temp_dir' = temp_dir
            /\ files' = files
            /\ executed' = executed]_vars

C11_Witness ==
    /\ file_size = MB(100) + 1
    /\ pc = "done"
    /\ runs = 2
    /\ files = {SystemTemp(1)}
    /\ ~processing
    /\ errors = <<"Please upload a video under 100MB">>

TrackAfter(k) ==
    generate_translated_audio(SubSeq(Val(translated_file), 1, k),
                              Val(duration), SubSeq(synth_outs, 1, k)).audio

\* ms is int(video_duration * 1000) for a duration of `ticks`
IsWholeMsOf(ms, ticks) ==
    ms * TicksPerMs <= ticks /\ ticks < (ms + 1) * TicksPerMs

\* C13: the length of the assembled track is fixed when it is created, at
\* int(video_duration * 1000) ms, and stays that after any sequence of
\* segments: a clip is overlaid at its own start_ms exactly when
\* start_ms + clip length <= track length; an overlay never lengthens the
\* track or moves an earlier clip; a clip that does not fit leaves the
\* track unchanged.
C13_TrackLengthFixed ==
    combined_audio # None =>
        LET n  == Len(Val(translated_file))
            ms == Val(combined_audio).len
        IN /\ IsWholeMsOf(ms, Val(duration))
           /\ TrackAfter(0) = [len |-> ms, placed |-> <<>>]
           /\ TrackAfter(n) = Val(combined_audio)
           /\ \A k \in 1..n :
                 LET start == start_ms_of(TranslatedSubs[k])
                 IN /\ TrackAfter(k).len = ms
                    /\ IF k \in Synthesized /\ start + synth_outs[k].len <= ms
                       THEN TrackAfter(k).placed
                              = Append(TrackAfter(k - 1).placed,
                                       [position |-> start, clip |-> k,
                                        len |-> synth_outs[k].len])
                       ELSE TrackAfter(k) = TrackAfter(k - 1)

C13_Witness ==
    /\ combined_audio # None
    /\ duration = Some(Sec(4) + 3)
    /\ Len(synth_outs) = 2
    /\ TranslatedSubs[1].start = 1500 /\ TranslatedSubs[2].start = 1500
    /\ synth_outs[1] = [kind |-> "ok", len |-> 2500]
    /\ synth_outs[2] = [kind |-> "ok", len |-> 3000]
    /\ Val(combined_audio) =
          [len |-> 4000,
           placed |-> <<[position |-> 1500, clip |-> 1, len |-> 2500]>>]

=============================================================================
